---- MODULE Spec2Model ----
(***************************************************************************)
(* State-machine model of streamer/main.py: the ffmpeg supervisor loop     *)
(* (ffmpeg_runner), the startup sequence (main), the WebRTC offer handler   *)
(* (offer) with its connection-state observer (on_state_change), the       *)
(* shutdown hook (on_shutdown) and the Prometheus metrics they write.       *)
(*                                                                         *)
(* Everything runs on one asyncio event loop: a coroutine runs without      *)
(* interruption from one await to the next, so every action below is the    *)
(* code between two consecutive suspension points.                          *)
(***************************************************************************)
EXTENDS Integers, Sequences, FiniteSets

\* ----------------------------------------------------------------- bounds
\* Number of POST /offer requests (one peer session id per request).
MaxSessions == 2
\* The ghost count of encoder launches saturates here (the loop itself is
\* unbounded and is not restricted by it).
MaxLaunches == 2

Sessions == 1..MaxSessions

\* Exit statuses of the encoder process (proc.returncode): success, failure.
ExitCodes == {0, 1}

\* proc.returncode while the process has not exited.
NoCode == -1

\* Connection states the observer treats as the end of a session (line 183).
TerminalStates == {"failed", "closed", "disconnected"}

VARIABLES
    mainpc,          \* main(): "init", "grace", "setup", "serving", "ended"
    suppc,           \* ffmpeg_runner(): "unstarted", "launching", "waiting",
                     \*   "sleeping", "cancelled"
    proc,            \* the supervisor's proc handle: "none", "running", "exited"
    returncode,      \* proc.returncode
    encoders,        \* encoder processes alive in the operating system
    launches,        \* ghost: processes launched so far (saturating)
    ffmpeg_running,  \* Gauge ffmpeg_running
    webrtc_peers,    \* Gauge webrtc_peers
    webrtc_offers,   \* Counter webrtc_offers_total
    webrtc_errors,   \* Counter webrtc_errors_total
    player,          \* global player: [set, video, audio]
    relay,           \* global relay: the number of MediaRelay objects made
    pcs,             \* global pcs: the active-session set
    hpc,             \* per request: position of its offer() coroutine: "idle",
                     \*   "json", "setRemote", "createAnswer", "setLocal",
                     \*   "done" (answered), "rejected" (raised before a
                     \*   connection existed), "raised" (raised during the
                     \*   handshake), "cancelled"
    conn,            \* per session: pc.connectionState ("none": no pc yet)
    isClosed,        \* per session: pc.close() progress "open"/"closing"/"closed"
    listeners,       \* per session: on_state_change is registered on pc
    obsPending,      \* per session: observer invocations scheduled, not started
    obsClosing,      \* per session: observer invocations awaiting pc.close()
    subs,            \* per session: tracks subscribed, in subscription order
    decs,            \* ghost: webrtc_peers.dec() calls made for the session
    closeCalls,      \* ghost: pc.close() calls made for the session
    shutpc,          \* on_shutdown(): "idle", "gathering", "done"
    shutWait,        \* on_shutdown(): the sessions whose close() it gathers
    UDP_PORT,        \* module constant UDP_PORT, read from the environment
    cmd              \* ffmpeg_runner(): the loopback UDP ports the command
                     \*   string it built last writes to ({}: none built yet)

supVars  == <<suppc, proc, returncode, encoders, launches, ffmpeg_running,
              cmd>>
mainVars == <<mainpc, player, relay, UDP_PORT>>
sessVars == <<pcs, hpc, conn, isClosed, listeners, obsPending, obsClosing,
              subs, decs, closeCalls>>
metricVars == <<webrtc_peers, webrtc_offers, webrtc_errors>>
shutVars == <<shutpc, shutWait>>
vars == <<mainVars, supVars, sessVars, metricVars, shutVars>>

\* Line 20: the port when the environment does not name one.
DefaultPort == 10000

\* Values of the environment's UDP_PORT: the default and another port.
Ports == {DefaultPort, DefaultPort + 1}

\* player before main() assigns it; reads: the loopback UDP ports it opens.
NoPlayer == [set |-> FALSE, video |-> FALSE, audio |-> FALSE, reads |-> {}]

Init ==
    /\ mainpc = "init"
    /\ suppc = "unstarted"
    /\ proc = "none"
    /\ returncode = NoCode
    /\ encoders = 0
    /\ launches = 0
    /\ ffmpeg_running = 0
    /\ webrtc_peers = 0
    /\ webrtc_offers = 0
    /\ webrtc_errors = 0
    /\ player = NoPlayer
    /\ relay = 0
    /\ pcs = {}
    /\ hpc = [s \in Sessions |-> "idle"]
    /\ conn = [s \in Sessions |-> "none"]
    /\ isClosed = [s \in Sessions |-> "open"]
    /\ listeners = [s \in Sessions |-> FALSE]
    /\ obsPending = [s \in Sessions |-> 0]
    /\ obsClosing = [s \in Sessions |-> 0]
    /\ subs = [s \in Sessions |-> <<>>]
    /\ decs = [s \in Sessions |-> 0]
    /\ closeCalls = [s \in Sessions |-> 0]
    /\ shutpc = "idle"
    /\ shutWait = {}
    /\ UDP_PORT = DefaultPort
    /\ cmd = {}

Alive == mainpc # "ended"

\* ============================================================ SUPERVISOR
\* Line 68: the port of the target computed from the configuration.
udp_target == UDP_PORT

\* Line 118: the port written in the text of the command that is returned.
CmdPort == 10000

\* Lines 56-140: the UDP outputs of the command build_ffmpeg_cmd() returns.
\* The tee target made from udp_target (69-73) is used only in a comment
\* (line 120); the returned string names its port literally.
build_ffmpeg_cmd == {CmdPort}

\* Head of the while-loop body up to its first await: ffmpeg_running.set(1),
\* build_ffmpeg_cmd(), then the call of create_subprocess_shell suspends.
SupLoopHead ==
    /\ ffmpeg_running' = 1
    /\ cmd' = build_ffmpeg_cmd
    /\ suppc' = "launching"

\* First run of the task created by main(): it starts when main() suspends.
SupBegin ==
    /\ Alive
    /\ mainpc # "init"
    /\ suppc = "unstarted"
    /\ SupLoopHead
    /\ UNCHANGED <<proc, returncode, encoders, launches>>
    /\ UNCHANGED <<mainVars, sessVars, metricVars, shutVars>>

\* create_subprocess_shell returns the new process; proc.wait() suspends.
SupLaunched ==
    /\ Alive
    /\ suppc = "launching"
    /\ proc' = "running"
    /\ returncode' = NoCode
    /\ encoders' = encoders + 1
    /\ launches' = IF launches < MaxLaunches THEN launches + 1 ELSE launches
    /\ suppc' = "waiting"
    /\ UNCHANGED <<ffmpeg_running, cmd>>
    /\ UNCHANGED <<mainVars, sessVars, metricVars, shutVars>>

\* The encoder process ends, with any exit status (environment).
ProcExit(code) ==
    /\ proc = "running"
    /\ proc' = "exited"
    /\ returncode' = code
    /\ encoders' = encoders - 1
    /\ UNCHANGED <<suppc, launches, ffmpeg_running, cmd>>
    /\ UNCHANGED <<mainVars, sessVars, metricVars, shutVars>>

\* A wait that does not wait: it returns while the process is still running.
WaitReturnsAtOnce == proc \in {"running", "exited"}

\* proc.wait() may return: the process behind the handle has exited.
WaitMayReturn == proc = "exited"

\* A supervisor that restarts only after a clean exit and returns otherwise.
AfterExitGivesUpOnFailure ==
    /\ ffmpeg_running' = 0
    /\ suppc' = IF returncode = 0 THEN "sleeping" ELSE "returned"

\* Lines 149-151: print the exit status, ffmpeg_running.set(0), and
\* asyncio.sleep suspends; the exit status decides nothing.
AfterExit ==
    /\ ffmpeg_running' = 0
    /\ suppc' = "sleeping"

\* A supervisor that ends every peer session when the encoder has exited.
ExitTearsDownSessions ==
    /\ pcs' = {}
    /\ conn' = [s \in Sessions |-> IF conn[s] = "none" THEN "none" ELSE "closed"]
    /\ webrtc_peers' = 0
    /\ UNCHANGED <<hpc, isClosed, listeners, obsPending, obsClosing, subs,
                   decs, closeCalls, webrtc_offers, webrtc_errors>>

\* Lines 149-151 name neither pcs, nor a connection, nor a session metric.
ExitLeavesSessions == UNCHANGED <<sessVars, metricVars>>

\* proc.wait() returns.
SupWaitReturn ==
    /\ Alive
    /\ suppc = "waiting"
    /\ WaitMayReturn
    /\ AfterExit
    /\ ExitLeavesSessions
    /\ UNCHANGED <<proc, returncode, encoders, launches, cmd>>
    /\ UNCHANGED <<mainVars, shutVars>>

\* asyncio.sleep(FFMPEG_LOOP_RESTART_DELAY) returns and the loop goes round.
SupSleepDone ==
    /\ Alive
    /\ suppc = "sleeping"
    /\ SupLoopHead
    /\ UNCHANGED <<proc, returncode, encoders, launches>>
    /\ UNCHANGED <<mainVars, sessVars, metricVars, shutVars>>

Supervisor ==
    \/ SupBegin
    \/ SupLaunched
    \/ SupWaitReturn
    \/ SupSleepDone

\* ================================================================== MAIN
\* asyncio.create_task(ffmpeg_runner()); asyncio.sleep(4) suspends.
MainStart ==
    /\ mainpc = "init"
    /\ mainpc' = "grace"
    /\ UNCHANGED <<player, relay, UDP_PORT>>
    /\ UNCHANGED <<supVars, sessVars, metricVars, shutVars>>

\* The grace delay is over: player = MediaPlayer(...) with whatever tracks the
\* transport shows at that moment, relay = MediaRelay(); init_app() and
\* runner.setup() follow (the first suspension).
MainPlayer(v, a) ==
    /\ mainpc = "grace"
    /\ player' = [set |-> TRUE, video |-> v, audio |-> a,
                  reads |-> {UDP_PORT}]
    /\ relay' = relay + 1
    /\ UNCHANGED UDP_PORT
    /\ mainpc' = "setup"
    /\ UNCHANGED <<supVars, sessVars, metricVars, shutVars>>

\* site.start() has returned: the listener accepts requests; main() waits on
\* an Event that is never set.
MainServe ==
    /\ mainpc = "setup"
    /\ mainpc' = "serving"
    /\ UNCHANGED <<player, relay, UDP_PORT>>
    /\ UNCHANGED <<supVars, sessVars, metricVars, shutVars>>

\* ================================================================= OFFER
\* A supervisor that waits for the process and for the delay with blocking
\* calls, keeping the event loop to itself meanwhile.
BlockingWaitHoldsLoop == suppc \in {"waiting", "sleeping"}

\* Lines 147, 148 and 151: the supervisor waits with await only, so it holds
\* the event loop in none of its waits.
SupervisorHoldsLoop == FALSE

\* A server that listens from the moment main() starts.
ListeningFromStart == mainpc \in {"grace", "setup", "serving"}

\* Lines 293-297: the listener is started by site.start(), after the grace
\* delay (276) and after player and relay have been assigned (279-291).
Listening == mainpc = "serving"

\* A POST /offer arrives and offer() suspends in request.json().  Requests
\* take session ids in order.
OfferRequest(s) ==
    /\ Listening
    /\ ~SupervisorHoldsLoop
    /\ hpc[s] = "idle"
    /\ \A t \in Sessions : t < s => hpc[t] # "idle"
    /\ hpc' = [hpc EXCEPT ![s] = "json"]
    /\ UNCHANGED <<pcs, conn, isClosed, listeners, obsPending, obsClosing,
                   subs, decs, closeCalls>>
    /\ UNCHANGED <<mainVars, supVars, metricVars, shutVars>>

\* Lines 173-176: pc = RTCPeerConnection(); pcs.add(pc); both metrics inc().
RegisterSession(s) ==
    /\ conn' = [conn EXCEPT ![s] = "new"]
    /\ pcs' = pcs \cup {s}
    /\ webrtc_offers' = webrtc_offers + 1
    /\ webrtc_peers' = webrtc_peers + 1

\* Lines 167-171 raise (request.json() on a body that is not JSON, a missing
\* "sdp"/"type" key, an unknown description type): the exception leaves
\* offer() before any later statement has run.
RejectBody(s) ==
    /\ hpc' = [hpc EXCEPT ![s] = "rejected"]
    /\ UNCHANGED <<pcs, conn, listeners, webrtc_offers, webrtc_peers>>

\* A handler that attaches the observer only after the handshake.
RegisterObserverLater(s) == UNCHANGED listeners

\* Lines 180-186: @pc.on("connectionstatechange") registers the observer in
\* the same run of the handler that made pc, ahead of the first handshake
\* await (line 188) and of addTrack (lines 191-194).
RegisterObserver(s) == listeners' = [listeners EXCEPT ![s] = TRUE]

\* request.json() returns; ok tells whether the body is a well-formed offer.
\* If it is, the session is registered, the observer is attached (line 180)
\* and pc.setRemoteDescription() suspends.
OfferBody(s, ok) ==
    /\ Alive
    /\ ~SupervisorHoldsLoop
    /\ hpc[s] = "json"
    /\ IF ok
       THEN /\ RegisterSession(s)
            /\ RegisterObserver(s)
            /\ hpc' = [hpc EXCEPT ![s] = "setRemote"]
       ELSE RejectBody(s)
    /\ UNCHANGED <<isClosed, obsPending, obsClosing, subs, decs, closeCalls,
                   webrtc_errors>>
    /\ UNCHANGED <<mainVars, supVars, shutVars>>

\* A handler that subscribes to both tracks without asking what is ready.
SubscribeAll(p) == <<"video", "audio">>

\* Lines 191-194: the tracks the handler subscribes to, in the order it does.
SubscribeOrder(p) ==
    (IF p.video THEN <<"video">> ELSE <<>>) \o
    (IF p.audio THEN <<"audio">> ELSE <<>>)

\* An awaited handshake call raises (lines 188-197): offer() has no handler
\* for it, so the exception leaves offer() and the framework answers with an
\* error status; no statement of offer() runs on the way out.
OnHandshakeError(s) ==
    /\ hpc' = [hpc EXCEPT ![s] = "raised"]
    /\ UNCHANGED <<pcs, webrtc_errors>>

\* A handler that treats an offer it can attach no track to as a failure.
AttachTracksRequiresMedia(s) ==
    IF SubscribeOrder(player) = <<>>
    THEN /\ OnHandshakeError(s)
         /\ UNCHANGED subs
    ELSE /\ subs' = [subs EXCEPT ![s] = SubscribeOrder(player)]
         /\ hpc' = [hpc EXCEPT ![s] = "createAnswer"]
         /\ UNCHANGED <<pcs, webrtc_errors>>

\* Lines 191-196: each ready track is subscribed and attached, none if none
\* is ready, and the handler goes on to pc.createAnswer() in every case.
AttachTracks(s) ==
    /\ subs' = [subs EXCEPT ![s] = SubscribeOrder(player)]
    /\ hpc' = [hpc EXCEPT ![s] = "createAnswer"]
    /\ UNCHANGED <<pcs, webrtc_errors>>

\* A handler that makes a relay of its own for every offer.
UseOwnRelay ==
    /\ relay' = relay + 1
    /\ UNCHANGED <<player, UDP_PORT>>

\* Lines 165 and 191-194: the handler reads the globals player and relay
\* that main() assigned and assigns neither.
UseRelay == UNCHANGED <<player, relay, UDP_PORT>>

\* pc.setRemoteDescription() returns (ok) or raises.  On return the ready
\* tracks are subscribed and attached, and pc.createAnswer() suspends.
OfferRemoteDone(s, ok) ==
    /\ Alive
    /\ ~SupervisorHoldsLoop
    /\ hpc[s] = "setRemote"
    /\ IF ok
       THEN AttachTracks(s)
       ELSE /\ OnHandshakeError(s)
            /\ UNCHANGED subs
    /\ UseRelay
    /\ UNCHANGED <<conn, isClosed, listeners, obsPending, obsClosing, decs,
                   closeCalls, webrtc_peers, webrtc_offers>>
    /\ UNCHANGED <<mainpc, supVars, shutVars>>

\* pc.createAnswer() returns or raises; pc.setLocalDescription() suspends.
OfferAnswerDone(s, ok) ==
    /\ Alive
    /\ ~SupervisorHoldsLoop
    /\ hpc[s] = "createAnswer"
    /\ IF ok
       THEN /\ hpc' = [hpc EXCEPT ![s] = "setLocal"]
            /\ UNCHANGED <<pcs, webrtc_errors>>
       ELSE OnHandshakeError(s)
    /\ UNCHANGED <<conn, isClosed, listeners, obsPending, obsClosing, subs,
                   decs, closeCalls, webrtc_peers, webrtc_offers>>
    /\ UNCHANGED <<mainVars, supVars, shutVars>>

\* pc.setLocalDescription() returns or raises; on return the answer is sent.
OfferLocalDone(s, ok) ==
    /\ Alive
    /\ ~SupervisorHoldsLoop
    /\ hpc[s] = "setLocal"
    /\ IF ok
       THEN /\ hpc' = [hpc EXCEPT ![s] = "done"]
            /\ UNCHANGED <<pcs, webrtc_errors>>
       ELSE OnHandshakeError(s)
    /\ UNCHANGED <<conn, isClosed, listeners, obsPending, obsClosing, subs,
                   decs, closeCalls, webrtc_peers, webrtc_offers>>
    /\ UNCHANGED <<mainVars, supVars, shutVars>>

\* ============================================================ CONNECTION
\* The connection states the network can move an open connection to.  The
\* state "closed" is entered by pc.close() only.
NextStates(c) ==
    CASE c = "new"          -> {"connecting"}
      [] c = "connecting"   -> {"connected", "failed"}
      [] c = "connected"    -> {"disconnected", "failed"}
      [] c = "disconnected" -> {"failed"}
      [] OTHER              -> {}

\* The connection emits "connectionstatechange": the registered observer, an
\* async def handler (line 180), is scheduled as a task of its own.
Emit(s) ==
    obsPending' = [obsPending EXCEPT ![s] = @ + (IF listeners[s] THEN 1 ELSE 0)]

\* The network changes the state of an open connection (environment).  The
\* transports start while the local description is being applied, so this
\* can happen while offer() is still suspended in setLocalDescription.  The
\* event loop runs ready callbacks in the order they became ready, so the
\* observer run scheduled by one change starts before the callback that
\* delivers the next change of the same connection.
ConnSignal(s, st) ==
    /\ Alive
    /\ hpc[s] \in {"setLocal", "done"}
    /\ isClosed[s] = "open"
    /\ obsPending[s] = 0
    /\ st \in NextStates(conn[s])
    /\ conn' = [conn EXCEPT ![s] = st]
    /\ Emit(s)
    /\ UNCHANGED <<pcs, hpc, isClosed, listeners, obsClosing, subs, decs,
                   closeCalls>>
    /\ UNCHANGED <<mainVars, supVars, metricVars, shutVars>>

\* A call of pc.close(): the first call starts the teardown, later calls
\* only wait for it.
CallClose(s) ==
    /\ closeCalls' = [closeCalls EXCEPT ![s] = @ + 1]
    /\ isClosed' = [isClosed EXCEPT ![s] = IF @ = "open" THEN "closing" ELSE @]

\* An observer that takes "disconnected" for a state to recover from.
ObserverIgnoresDisconnected(s) == conn[s] \in {"failed", "closed"}

\* Line 183: the condition on which the observer cleans up.
ObserverCleansUp(s) == conn[s] \in TerminalStates

\* One scheduled run of on_state_change (lines 181-186) up to its await:
\* it reads pc.connectionState as it is now; on a terminal state it
\* decrements the gauge and calls pc.close().  A close() of a connection
\* that is already closed returns without suspending, so pcs.discard(pc)
\* follows in the same step.
ObsRun(s) ==
    /\ Alive
    /\ obsPending[s] > 0
    /\ obsPending' = [obsPending EXCEPT ![s] = @ - 1]
    /\ IF ObserverCleansUp(s)
       THEN /\ webrtc_peers' = webrtc_peers - 1
            /\ decs' = [decs EXCEPT ![s] = @ + 1]
            /\ CallClose(s)
            /\ IF isClosed[s] = "closed"
               THEN /\ pcs' = pcs \ {s}
                    /\ UNCHANGED obsClosing
               ELSE /\ obsClosing' = [obsClosing EXCEPT ![s] = @ + 1]
                    /\ UNCHANGED pcs
       ELSE UNCHANGED <<webrtc_peers, decs, closeCalls, isClosed, pcs,
                        obsClosing>>
    /\ UNCHANGED <<hpc, conn, listeners, subs, webrtc_offers, webrtc_errors>>
    /\ UNCHANGED <<mainVars, supVars, shutVars>>

\* The teardown started by the first pc.close() finishes: the state becomes
\* "closed", which is one more state change the observer is scheduled for,
\* and then the connection drops its listeners.
ConnCloseDone(s) ==
    /\ Alive
    /\ isClosed[s] = "closing"
    /\ conn' = [conn EXCEPT ![s] = "closed"]
    /\ Emit(s)
    /\ listeners' = [listeners EXCEPT ![s] = FALSE]
    /\ isClosed' = [isClosed EXCEPT ![s] = "closed"]
    /\ UNCHANGED <<pcs, hpc, obsClosing, subs, decs, closeCalls>>
    /\ UNCHANGED <<mainVars, supVars, metricVars, shutVars>>

\* await pc.close() returns in an observer: pcs.discard(pc) (line 186).
ObsCloseReturn(s) ==
    /\ Alive
    /\ obsClosing[s] > 0
    /\ isClosed[s] = "closed"
    /\ obsClosing' = [obsClosing EXCEPT ![s] = @ - 1]
    /\ pcs' = pcs \ {s}
    /\ UNCHANGED <<hpc, conn, isClosed, listeners, obsPending, subs, decs,
                   closeCalls>>
    /\ UNCHANGED <<mainVars, supVars, metricVars, shutVars>>

\* ============================================================== SHUTDOWN
\* on_shutdown(app), lines 206-209, runs when the application's on_shutdown
\* signal is sent.  gather() calls close() on every member of pcs as it is
\* at that moment and suspends; a gather of nothing is complete at once, so
\* with pcs empty pcs.clear() follows in the same step.
ShutdownBegin ==
    /\ Alive
    /\ mainpc = "serving"
    /\ shutpc = "idle"
    /\ shutpc' = IF pcs = {} THEN "done" ELSE "gathering"
    /\ shutWait' = pcs
    /\ closeCalls' = [s \in Sessions |->
                        IF s \in pcs THEN closeCalls[s] + 1 ELSE closeCalls[s]]
    /\ isClosed' = [s \in Sessions |->
                        IF s \in pcs /\ isClosed[s] = "open"
                        THEN "closing" ELSE isClosed[s]]
    /\ UNCHANGED <<pcs, hpc, conn, listeners, obsPending, obsClosing, subs,
                   decs>>
    /\ UNCHANGED <<mainVars, supVars, metricVars>>

\* Every gathered close() has returned: pcs.clear().
ShutdownDone ==
    /\ Alive
    /\ shutpc = "gathering"
    /\ \A s \in shutWait : isClosed[s] = "closed"
    /\ pcs' = {}
    /\ shutpc' = "done"
    /\ UNCHANGED shutWait
    /\ UNCHANGED <<hpc, conn, isClosed, listeners, obsPending, obsClosing,
                   subs, decs, closeCalls>>
    /\ UNCHANGED <<mainVars, supVars, metricVars>>

\* ============================================================= INTERRUPT
\* Lines 302-306: KeyboardInterrupt ends asyncio.run(main()): every task is
\* cancelled where it is suspended and the process ends.  main() holds the
\* AppRunner (lines 294-297) but has no statement after its final wait, so
\* runner.cleanup() is never called and the on_shutdown signal is not sent
\* on this path.
Interrupt ==
    /\ Alive
    /\ mainpc' = "ended"
    /\ suppc' = IF suppc = "unstarted" THEN suppc ELSE "cancelled"
    /\ hpc' = [s \in Sessions |->
                 IF hpc[s] \in {"idle", "done", "rejected", "raised"}
                 THEN hpc[s] ELSE "cancelled"]
    /\ obsPending' = [s \in Sessions |-> 0]
    /\ obsClosing' = [s \in Sessions |-> 0]
    /\ UNCHANGED <<player, relay, UDP_PORT>>
    /\ UNCHANGED <<proc, returncode, encoders, launches, ffmpeg_running, cmd>>
    /\ UNCHANGED <<pcs, conn, isClosed, listeners, subs, decs, closeCalls>>
    /\ UNCHANGED <<metricVars, shutVars>>

\* ========================================================== SPECIFICATION
Main ==
    \/ MainStart
    \/ \E v \in BOOLEAN, a \in BOOLEAN : MainPlayer(v, a)
    \/ MainServe

Offers ==
    \/ \E s \in Sessions : OfferRequest(s)
    \/ \E s \in Sessions, ok \in BOOLEAN : OfferBody(s, ok)
    \/ \E s \in Sessions, ok \in BOOLEAN : OfferRemoteDone(s, ok)
    \/ \E s \in Sessions, ok \in BOOLEAN : OfferAnswerDone(s, ok)
    \/ \E s \in Sessions, ok \in BOOLEAN : OfferLocalDone(s, ok)

Connections ==
    \/ \E s \in Sessions, st \in TerminalStates \cup {"connecting", "connected"} :
          ConnSignal(s, st)
    \/ \E s \in Sessions : ObsRun(s)
    \/ \E s \in Sessions : ConnCloseDone(s)
    \/ \E s \in Sessions : ObsCloseReturn(s)

Encoder == \E code \in ExitCodes : ProcExit(code)

\* The program as main() runs it, until an interrupt ends it.
Running == Main \/ Supervisor \/ Encoder \/ Offers \/ Connections

Next == Running \/ Interrupt

Spec == Init /\ [][Next]_vars

\* The state after the module is loaded with UDP_PORT set in the environment.
ConfiguredInit ==
    /\ UDP_PORT \in Ports
    /\ mainpc = "init"
    /\ suppc = "unstarted"
    /\ proc = "none"
    /\ returncode = NoCode
    /\ encoders = 0
    /\ launches = 0
    /\ ffmpeg_running = 0
    /\ webrtc_peers = 0
    /\ webrtc_offers = 0
    /\ webrtc_errors = 0
    /\ player = NoPlayer
    /\ relay = 0
    /\ pcs = {}
    /\ hpc = [s \in Sessions |-> "idle"]
    /\ conn = [s \in Sessions |-> "none"]
    /\ isClosed = [s \in Sessions |-> "open"]
    /\ listeners = [s \in Sessions |-> FALSE]
    /\ obsPending = [s \in Sessions |-> 0]
    /\ obsClosing = [s \in Sessions |-> 0]
    /\ subs = [s \in Sessions |-> <<>>]
    /\ decs = [s \in Sessions |-> 0]
    /\ closeCalls = [s \in Sessions |-> 0]
    /\ shutpc = "idle"
    /\ shutWait = {}
    /\ cmd = {}

\* The program when its host sends the application's on_shutdown signal
\* (line 268 registers the hook) while the program is serving.
HookSpec == Init /\ [][Next \/ ShutdownBegin \/ ShutdownDone]_vars

\* The program under every configured port.
PortSpec == ConfiguredInit /\ [][Next]_vars

\* Normal operation: no interrupt arrives.  The event loop runs every task
\* that is ready, the subprocess call and the restart delay both return, so
\* the supervisor's steps are weakly fair; the encoder's exits are not.
LiveSpec == Init /\ [][Running]_vars /\ WF_vars(Supervisor)

\* The steps that carry one session's cleanup forward.
ObserverSteps(s) == ObsRun(s) \/ ConnCloseDone(s) \/ ObsCloseReturn(s)

\* Normal operation with the observer callbacks scheduled fairly: the event
\* loop starts every observer run it has scheduled, and a pc.close() that
\* has been called finishes and returns.
CleanupSpec ==
    Init /\ [][Running]_vars /\ \A s \in Sessions : WF_vars(ObserverSteps(s))

\* Requests that are valid offers: the body is well formed and none of the
\* awaited handshake calls raises.
ValidOffers ==
    \/ \E s \in Sessions : OfferRequest(s)
    \/ \E s \in Sessions : OfferBody(s, TRUE)
    \/ \E s \in Sessions : OfferRemoteDone(s, TRUE)
    \/ \E s \in Sessions : OfferAnswerDone(s, TRUE)
    \/ \E s \in Sessions : OfferLocalDone(s, TRUE)

\* The program when every request it receives is a valid offer.
ValidSpec ==
    Init /\ [][Main \/ Supervisor \/ Encoder \/ ValidOffers \/ Connections
                \/ Interrupt]_vars

\* ================================================================ CLAIMS
\* No coroutine of the program is between two of its awaits.
Quiescent ==
    /\ Alive
    /\ \A s \in Sessions :
          /\ hpc[s] \in {"idle", "done", "rejected", "raised"}
          /\ obsPending[s] = 0
          /\ obsClosing[s] = 0

\* The requests whose handler has run past the reading of the body.
Handled ==
    {s \in Sessions : hpc[s] \in {"setRemote", "createAnswer", "setLocal",
                                  "done", "rejected", "raised"}}

\* Position of track x in a subscription order that holds it.
Pos(seq, x) == CHOOSE i \in 1..Len(seq) : seq[i] = x

\* C1: however often the observer runs on a terminal state, the cleanup of a
\* session takes effect once: one gauge decrement and one close() call per
\* session.
C1_CleanupExactlyOnce ==
    \A s \in Sessions : decs[s] <= 1 /\ closeCalls[s] <= 1

\* C2: the active-sessions gauge is never negative, and whenever no handler
\* and no observer is mid-execution it equals the size of the active set.
C2_GaugeMatchesActiveSet ==
    /\ webrtc_peers >= 0
    /\ Quiescent => webrtc_peers = Cardinality(pcs)

\* C3: offers_total equals the number of POST /offer requests handled,
\* whether they succeeded, had a malformed body or failed in the handshake.
C3_OffersCountEveryRequest ==
    Alive => webrtc_offers = Cardinality(Handled)

\* C4: every exception raised during the negotiation sequence has
\* incremented the error counter by one.
C4_ErrorsCountHandshakeFailures ==
    webrtc_errors = Cardinality({s \in Sessions : hpc[s] = "raised"})

\* C5: a session whose handshake raised is not a member of the active set
\* once the failed request has completed.
C5_FailedSessionDiscarded ==
    \A s \in Sessions : hpc[s] = "raised" => s \notin pcs

\* C6: when the process has ended on the interrupt path, every session has
\* been closed and the active set is empty.
C6_ShutdownClosesAll ==
    mainpc = "ended" =>
        /\ pcs = {}
        /\ \A s \in Sessions : conn[s] # "none" => isClosed[s] = "closed"

\* C7: in every offer that subscribes to both tracks, the audio subscription
\* comes before the video subscription.
C7_AudioBeforeVideo ==
    \A s \in Sessions :
        {"audio", "video"} \subseteq {subs[s][i] : i \in 1..Len(subs[s])}
            => Pos(subs[s], "audio") < Pos(subs[s], "video")

\* C8: the running gauge reads 1 only while an encoder process has been
\* launched and its exit has not yet been observed by the supervisor.
C8_GaugeOneOnlyWhileLaunched ==
    (Alive /\ ffmpeg_running = 1) =>
        (suppc = "waiting" /\ proc \in {"running", "exited"})

\* C9: every encoder exit, whatever the exit status, is eventually followed
\* by the launch of a new encoder process.
C9_RestartsForever ==
    \A code \in ExitCodes :
        (proc = "exited" /\ returncode = code) ~> (proc = "running")

\* C9 witness: a second encoder runs after the first one exited with failure.
C9_Witness ==
    /\ launches >= 2
    /\ proc = "running"
    /\ suppc = "waiting"

\* C10: at most one encoder process is alive, and whenever the supervisor is
\* creating a process or pausing before doing so, none is.
C10_OneEncoderAtATime ==
    /\ encoders <= 1
    /\ suppc \in {"launching", "sleeping"} => encoders = 0 /\ proc # "running"

\* C10 witness: the supervisor is creating a process after an earlier one
\* has run and exited.
C10_Witness ==
    /\ suppc = "launching"
    /\ launches >= 1
    /\ proc = "exited"

\* The ingest player exists and found no track.
NoTrackReady == player.set /\ ~player.video /\ ~player.audio

\* C11: a valid offer received while no track is ready is not failed: its
\* handler never raises, subscribes to nothing, and leaves the error counter
\* at zero.
C11_MediaLessOfferSucceeds ==
    NoTrackReady =>
        /\ webrtc_errors = 0
        /\ \A s \in Sessions :
              /\ hpc[s] \notin {"rejected", "raised"}
              /\ subs[s] = <<>>

\* C11 witness: an offer has been answered with no track attached.
C11_Witness ==
    /\ NoTrackReady
    /\ \E s \in Sessions : hpc[s] = "done" /\ subs[s] = <<>> /\ s \in pcs

\* C12: a step that moves the supervisor, the encoder process or the running
\* gauge changes neither the active set, nor a connection's state, nor the
\* active-sessions gauge.
C12_RestartLeavesSessions ==
    [][(suppc' # suppc \/ proc' # proc \/ ffmpeg_running' # ffmpeg_running)
          => (pcs' = pcs /\ conn' = conn /\ webrtc_peers' = webrtc_peers)]_vars

\* C12 witness: a session is connected while a restarted encoder runs.
C12_Witness ==
    /\ launches >= 2
    /\ suppc = "waiting"
    /\ ffmpeg_running = 1
    /\ \E s \in Sessions : conn[s] = "connected" /\ s \in pcs

\* The sessions subscribed to track t.
Subscribers(t) ==
    {s \in Sessions : \E i \in 1..Len(subs[s]) : subs[s][i] = t}

\* The upstream read loops of track t: every relay runs one reader for each
\* source track that has subscribers, however many they are.
UpstreamLoops(t) == IF Subscribers(t) = {} THEN 0 ELSE relay

C14_TerminalSessionRemoved ==
    /\ \A s \in Sessions :
          (s \in pcs /\ conn[s] \in TerminalStates)
              ~> (s \notin pcs /\ isClosed[s] = "closed")
    /\ [][\A s \in Sessions :
             (conn[s] # "none" /\ s \notin pcs) => s \notin pcs']_vars

\* C14 witness: a session has been closed and removed after its connection
\* failed.
C14_Witness ==
    \E s \in Sessions :
        /\ conn[s] = "closed"
        /\ isClosed[s] = "closed"
        /\ s \notin pcs
        /\ decs[s] >= 1

\* C15: a connection that exists and has not finished closing has its
\* observer registered, from before any track is attached and before any
\* state change can be signalled; every state change of a session in the
\* active set therefore schedules the observer.
C15_ObserverBeforeMedia ==
    \A s \in Sessions :
        /\ (conn[s] # "none" /\ isClosed[s] # "closed") => listeners[s]
        /\ subs[s] # <<>> => conn[s] # "none"
        /\ (conn[s] \notin {"none", "new"} /\ decs[s] = 0 /\ Alive)
              => (obsPending[s] > 0 \/ conn[s] \notin TerminalStates)

\* C15 witness: a state change arrived while the handler was still in the
\* handshake, and the observer was there to be scheduled.
C15_Witness ==
    \E s \in Sessions :
        /\ hpc[s] = "setLocal"
        /\ subs[s] # <<>>
        /\ listeners[s]
        /\ conn[s] = "connecting"
        /\ obsPending[s] = 1

\* C16: wherever the supervisor is, a request can be taken once the server
\* is up and a handler suspended in the handshake can take its next step;
\* and whatever the handlers are doing, the supervisor can observe an exit,
\* end its delay and launch.
C16_SupervisorNeverBlocksOffers ==
    /\ \A s \in Sessions :
          /\ (mainpc = "serving" /\ hpc[s] = "idle"
                /\ \A t \in Sessions : t < s => hpc[t] # "idle")
                 => ENABLED OfferRequest(s)
          /\ (Alive /\ hpc[s] = "json") => ENABLED OfferBody(s, TRUE)
          /\ (Alive /\ hpc[s] = "setRemote") => ENABLED OfferRemoteDone(s, TRUE)
          /\ (Alive /\ hpc[s] = "createAnswer")
                 => ENABLED OfferAnswerDone(s, TRUE)
          /\ (Alive /\ hpc[s] = "setLocal") => ENABLED OfferLocalDone(s, TRUE)
    /\ (Alive /\ suppc = "waiting" /\ proc = "exited") => ENABLED SupWaitReturn
    /\ (Alive /\ suppc = "sleeping") => ENABLED SupSleepDone
    /\ (Alive /\ suppc = "launching") => ENABLED SupLaunched

\* C16 witness: a handler is suspended in the handshake while the supervisor
\* sits in its restart delay after an encoder exit.
C16_Witness ==
    /\ suppc = "sleeping"
    /\ proc = "exited"
    /\ \E s \in Sessions : hpc[s] = "createAnswer"

\* C17: every track a session is subscribed to is a track the player has:
\* no subscription is made for a source that is not ready.
C17_SubscribesReadyTracksOnly ==
    \A s \in Sessions :
        /\ s \in Subscribers("video") => player.video
        /\ s \in Subscribers("audio") => player.audio

\* C17 witness: with video ready and audio not, a session holds the video
\* subscription alone.
C17_Witness ==
    /\ player.video
    /\ ~player.audio
    /\ \E s \in Sessions : subs[s] = <<"video">>

\* C20: whenever a request has been taken, the globals player and relay
\* have been assigned.
C20_NoOfferBeforePlayer ==
    \A s \in Sessions : hpc[s] # "idle" => player.set /\ relay >= 1

\* C20 witness: a handler is in the handshake, with player and relay set.
C20_Witness ==
    /\ player.set
    /\ relay = 1
    /\ \E s \in Sessions : hpc[s] = "setRemote"

\* C18: once the supervisor has built a command and main() has made the
\* player, the command writes to exactly the port the player reads, whatever
\* port is configured.
C18_EncoderWritesWherePlayerReads ==
    (cmd # {} /\ player.set) => cmd = player.reads

\* C19: a session that has a connection and is not in the active set has
\* had its connection closed.
C19_RemovedOnlyAfterClosed ==
    \A s \in Sessions :
        (conn[s] # "none" /\ s \notin pcs) => isClosed[s] = "closed"

====
